---- MODULE Spec2Model ----
(***************************************************************************)
(* PulseFeedback: the creator-feedback API route                           *)
(* (whop-app/app/api/creator-feedback/route.ts), the creator_feedback      *)
(* table (whop-app/supabase/migrations/add_creator_feedback.sql) and the   *)
(* creator dashboard (whop-app/app/pulse/dashboard/DashboardContent.tsx).  *)
(***************************************************************************)
EXTENDS Integers, Sequences, FiniteSets, TLC

(***************************************************************************)
(* Bounds of the model.                                                    *)
(***************************************************************************)
\* longest string (in characters) a request field or a form field holds
MaxStrLen == 2
\* requests are accepted while the table holds fewer rows than this
MaxRows == 1
\* network activities (CRUD calls and fetchMessages runs) the dashboard has in
\* flight at once
MaxInFlight == 1
\* most reactions a message has
MaxReactions == 6
MaxMessages == 2
\* messages of a store whose ranking is checked
MaxRanked == 5
\* messages of a store whose pages are checked
MaxPaged == 21
\* fetchMessages runs in flight at once, where runs overlap
MaxOverlap == 2

(***************************************************************************)
(* JavaScript / JSON values.  A value is a record [t, n, s]: its type tag, *)
(* its number (numbers and booleans) and its characters (strings).         *)
(***************************************************************************)
JV(t, n, s) == [t |-> t, n |-> n, s |-> s]
JUndefined == JV("undefined", 0, <<>>)
JNull == JV("null", 0, <<>>)
JNum(k) == JV("number", k, <<>>)
JStr(s) == JV("string", 0, s)

\* the characters strings are made of, and those String.prototype.trim strips
Chars == {" ", "a"}
Whitespace == {" "}
Strings == UNION {[1..n -> Chars] : n \in 0..MaxStrLen}

\* JavaScript truthiness: !v holds of undefined, null, 0, false and ""
Falsy(v) ==
  \/ v.t \in {"undefined", "null"}
  \/ v.t \in {"number", "boolean"} /\ v.n = 0
  \/ v.t = "string" /\ v.s = <<>>

RECURSIVE TrimStart(_)
TrimStart(s) ==
  IF s = <<>> \/ Head(s) \notin Whitespace THEN s ELSE TrimStart(Tail(s))

RECURSIVE TrimEnd(_)
TrimEnd(s) ==
  IF s = <<>> \/ s[Len(s)] \notin Whitespace THEN s
  ELSE TrimEnd(SubSeq(s, 1, Len(s) - 1))

\* String.prototype.trim
Trim(s) == TrimEnd(TrimStart(s))

(***************************************************************************)
(* route.ts                                                                *)
(***************************************************************************)
Bug == <<"b", "u", "g">>
Feedback == <<"f", "e", "e", "d", "b", "a", "c", "k">>
Idea == <<"i", "d", "e", "a">>
Other == <<"o", "t", "h", "e", "r">>
Spam == <<"s", "p", "a", "m">>

ALLOWED_CATEGORIES == <<Bug, Feedback, Idea, Other>>

\* Array.prototype.includes: a string of the array equal to the value
Includes(arr, v) == v.t = "string" /\ \E i \in 1..Len(arr) : arr[i] = v.s

\* the words of the error messages the handler is seen to catch
UnauthorizedWord == "Unauthorized"

\* String.prototype.includes on an error message, a sequence of words
MessageIncludes(msg, word) == \E i \in 1..Len(msg) : msg[i] = word

\* a thrown value: whether its .message is a string, and that string's words
Thrown(isString, msg) == [isString |-> isString, msg |-> msg]
NoError == Thrown(FALSE, <<>>)
ThrownErrors ==
  { Thrown(TRUE, <<"Unauthorized">>),
    Thrown(TRUE, <<"Unauthorized:", "Unauthorized", "creator">>),
    Thrown(TRUE, <<"Forbidden">>),
    Thrown(FALSE, <<>>) }
\* what calling .trim on a value that has none throws
TypeErrorNotAFunction == Thrown(TRUE, <<"subject.trim", "is", "not", "a", "function">>)

(***************************************************************************)
(* State.                                                                  *)
(***************************************************************************)
VARIABLES
  table,        \* the rows of creator_feedback, in insertion order
  tableBefore,  \* the table as it was when the request being handled arrived
  rpc,          \* the route: "idle", or "done" once the response is sent
  request,      \* the request handled last, with what each service answered
  response,     \* the response sent for it
  \* the server behind /api/feedback, /api/replies and /api/reactions
  db,           \* the creator's messages, each with its replies and reactions
  \* DashboardContent's state (useState)
  messages, allMessages, isLoading, activeTab, filter, selectedMessage,
  currentPage,
  isSupportModalOpen, supportCategory, supportSubject, supportMessage,
  supportSubmitting, supportSuccess, supportError,
  \* the dashboard's asynchronous work
  calls,        \* CRUD requests awaiting their response
  fetches,      \* fetchMessages runs, each at one of its awaits
  supportCalls, \* POST /api/creator-feedback requests awaiting their response
  alertText,    \* the alert() dialog on screen, "" when there is none
  lastStep      \* what the step just taken was: handler, outcome, console.error

routeVars == <<table, tableBefore, rpc, request, response>>
listVars == <<messages, allMessages, isLoading>>
viewVars == <<activeTab, filter, selectedMessage, currentPage>>
supportVars ==
  <<isSupportModalOpen, supportCategory, supportSubject, supportMessage,
    supportSubmitting, supportSuccess, supportError, supportCalls>>
dashVars == <<db, listVars, viewVars, supportVars, calls, fetches, alertText, lastStep>>
vars == <<routeVars, dashVars>>

(***************************************************************************)
(* Requests: the body sent, and what requireCreator, getCreatorForCompany  *)
(* and the insert answer when the handler calls them.                      *)
(***************************************************************************)
AuthThrows(err) == [kind |-> "throws", companyId |-> "", userId |-> "", err |-> err]
AuthOk(companyId) ==
  [kind |-> "ok", companyId |-> companyId, userId |-> "user_1", err |-> NoError]
\* requireCreator throws, or returns the session with or without a company id
AuthOutcomes == {AuthThrows(e) : e \in ThrownErrors} \cup {AuthOk(""), AuthOk("biz_1")}

Body(kind, category, message, subject, err) ==
  [kind |-> kind, category |-> category, message |-> message,
   subject |-> subject, err |-> err]
CategoryValues == {JUndefined, JStr(Bug), JStr(Feedback), JStr(Idea), JStr(Other), JStr(Spam)}
MessageValues == {JUndefined, JNull, JNum(5)} \cup {JStr(s) : s \in Strings}
SubjectValues == {JUndefined, JNull, JNum(5)} \cup {JStr(s) : s \in Strings}
\* a body request.json() cannot parse (with the SyntaxError it throws), the
\* JSON value null, or an object with any of the three fields
Bodies ==
  {Body("unparsable", JUndefined, JUndefined, JUndefined, e) :
     e \in {Thrown(TRUE, <<"Unexpected", "token">>),
            Thrown(TRUE, <<"Unexpected", "token", "Unauthorized">>)}}
  \cup {Body("null", JUndefined, JUndefined, JUndefined, NoError)}
  \cup {Body("object", c, m, s, NoError) :
          c \in CategoryValues, m \in MessageValues, s \in SubjectValues}

Lookup(kind, err) == [kind |-> kind, err |-> err]
LookupNotCalled == Lookup("notcalled", NoError)
\* getCreatorForCompany throws, resolves to null, or resolves to the creator
LookupOutcomes ==
  {Lookup("throws", Thrown(TRUE, <<"Forbidden">>)),
   Lookup("throws", Thrown(TRUE, <<"Unauthorized">>)),
   Lookup("none", NoError), Lookup("found", NoError)}

\* the insert resolves to {data, error}: a row, or an error
InsertOutcomes == {"ok", "error"}

Request(auth, body, lookup, insert) ==
  [auth |-> auth, body |-> body, lookup |-> lookup, insert |-> insert]
NoRequest ==
  Request(AuthOk(""), Body("null", JUndefined, JUndefined, JUndefined, NoError),
          LookupNotCalled, "notcalled")

Json(status, error, data) == [status |-> status, error |-> error, data |-> data]
NoResponse == Json(0, "", <<>>)

(***************************************************************************)
(* The handler, in the order of route.ts.                                  *)
(***************************************************************************)
\* if (!category || !ALLOWED_CATEGORIES.includes(category))
InvalidCategory_NoAllowList(category) == Falsy(category)
InvalidCategory(category) ==
  Falsy(category) \/ ~Includes(ALLOWED_CATEGORIES, category)

\* if (!message || typeof message !== 'string' || !message.trim())
InvalidMessage_NoTrim(message) == Falsy(message) \/ message.t # "string"
InvalidMessage(message) ==
  Falsy(message) \/ message.t # "string" \/ Trim(message.s) = <<>>

\* if (!creator)
CreatorMissing_Never(lookup) == FALSE
CreatorMissing(lookup) == lookup.kind = "none"

\* subject?.trim(): undefined for undefined and null, a TypeError for a value
\* that has no trim method, the trimmed string otherwise
SubjectTrimThrows(subject) == subject.t \notin {"undefined", "null", "string"}
\* subject?.trim() || null
SubjectOrNull(subject) ==
  IF subject.t = "string" /\ Trim(subject.s) # <<>>
  THEN JStr(Trim(subject.s)) ELSE JNull

\* the object passed to insert()
FeedbackRow_Untrimmed(auth, category, subject, message) ==
  [creator_id |-> "creator_1", company_id |-> auth.companyId,
   user_id |-> auth.userId, category |-> category.s,
   subject |-> IF subject.t = "string" THEN subject ELSE JNull,
   message |-> message.s]
FeedbackRow(auth, category, subject, message) ==
  [creator_id |-> "creator_1", company_id |-> auth.companyId,
   user_id |-> auth.userId, category |-> category.s,
   subject |-> SubjectOrNull(subject), message |-> Trim(message.s)]

\* the table's CHECK (category IN (...)) and what the store answers: the
\* {data, error} of .insert(row).select().single(), and the table afterwards
InsertRow_NotAtomic(tbl, row, outcome) ==
  IF outcome = "ok" /\ \E i \in 1..Len(ALLOWED_CATEGORIES) : ALLOWED_CATEGORIES[i] = row.category
  THEN [data |-> <<row>>, error |-> FALSE, table |-> Append(tbl, row)]
  ELSE [data |-> <<>>, error |-> TRUE, table |-> Append(tbl, row)]
InsertRow(tbl, row, outcome) ==
  IF outcome = "ok" /\ \E i \in 1..Len(ALLOWED_CATEGORIES) : ALLOWED_CATEGORIES[i] = row.category
  THEN [data |-> <<row>>, error |-> FALSE, table |-> Append(tbl, row)]
  ELSE [data |-> <<>>, error |-> TRUE, table |-> tbl]

\* if (error)
InsertFailed_Ignored(result) == FALSE
InsertFailed(result) == result.error

\* what the handler answers: the response, the table afterwards, the calls made
Answer(status, error, data, tbl, made) ==
  [status |-> status, error |-> error, data |-> data, table |-> tbl, calls |-> made]

\* the catch block: 401 when the message includes 'Unauthorized', else 500
Catch_Always401(err, tbl, made) == Answer(401, "Unauthorized", <<>>, tbl, made)
Catch(err, tbl, made) ==
  LET message == IF err.isString THEN err.msg ELSE <<>> IN
  IF MessageIncludes(message, UnauthorizedWord)
  THEN Answer(401, "Unauthorized", <<>>, tbl, made)
  ELSE Answer(500, "Internal server error", <<>>, tbl, made)

POST(req, tbl) ==
  LET auth == req.auth
      body == req.body
      category == body.category
      message == body.message
      subject == body.subject
  IN
  IF auth.kind = "throws" THEN Catch(auth.err, tbl, {"requireCreator"})
  ELSE IF auth.companyId = ""
  THEN Answer(500, "Company ID missing", <<>>, tbl, {"requireCreator"})
  ELSE IF body.kind = "unparsable"
  THEN Catch(body.err, tbl, {"requireCreator", "json"})
  ELSE IF InvalidCategory(category)
  THEN Answer(400, "Invalid category", <<>>, tbl, {"requireCreator", "json"})
  ELSE IF InvalidMessage(message)
  THEN Answer(400, "Message is required", <<>>, tbl, {"requireCreator", "json"})
  ELSE IF req.lookup.kind = "throws"
  THEN Catch(req.lookup.err, tbl, {"requireCreator", "json", "getCreatorForCompany"})
  ELSE IF CreatorMissing(req.lookup)
  THEN Answer(404, "Creator not found for company", <<>>, tbl,
              {"requireCreator", "json", "getCreatorForCompany"})
  ELSE IF req.lookup.kind # "found"
  \* creator.id of null
  THEN Catch(TypeErrorNotAFunction, tbl, {"requireCreator", "json", "getCreatorForCompany"})
  ELSE IF SubjectTrimThrows(subject)
  THEN Catch(TypeErrorNotAFunction, tbl, {"requireCreator", "json", "getCreatorForCompany"})
  ELSE
    LET result == InsertRow(tbl, FeedbackRow(auth, category, subject, message), req.insert)
        made == {"requireCreator", "json", "getCreatorForCompany", "insert"}
    IN IF InsertFailed(result)
       THEN Answer(500, "Failed to submit feedback", <<>>, result.table, made)
       ELSE Answer(201, "", result.data, result.table, made)

\* The request as the handler saw it: a service it did not call gave no answer.
Seen(req, made) ==
  [req EXCEPT
     !.lookup = IF "getCreatorForCompany" \in made THEN @ ELSE LookupNotCalled,
     !.insert = IF "insert" \in made THEN @ ELSE "notcalled"]

\* One request, from its arrival to its response.
HandlePost ==
  /\ rpc = "idle"
  /\ Len(table) < MaxRows
  /\ \E auth \in AuthOutcomes, body \in Bodies,
        lookup \in LookupOutcomes, insert \in InsertOutcomes :
       LET req == Request(auth, body, lookup, insert)
           a == POST(req, table)
       IN /\ request' = Seen(req, a.calls)
          /\ response' = Json(a.status, a.error, a.data)
          /\ table' = a.table
          /\ tableBefore' = table
          /\ rpc' = "done"
  /\ UNCHANGED dashVars

\* The next request arrives.
NextRequest ==
  /\ rpc = "done"
  /\ rpc' = "idle"
  /\ request' = NoRequest
  /\ response' = NoResponse
  /\ tableBefore' = table
  /\ UNCHANGED <<table, dashVars>>

(***************************************************************************)
(* DashboardContent.tsx: messages                                          *)
(***************************************************************************)
\* reaction_count of a message that carries none (undefined)
NoCount == -1
\* the fixed numbers of the Hot Posts section
HOT_THRESHOLD == 5
HOT_LIMIT == 4
MESSAGES_PER_PAGE == 10

\* a message as /api/feedback returns it; reply holds its replies, each
\* [id, is_public]; in db, reaction_count is the number of its reactions
Msg(id, tag, reviewed, reply, created_at, reaction_count) ==
  [id |-> id, tag |-> tag, reviewed |-> reviewed, reply |-> reply,
   created_at |-> created_at, reaction_count |-> reaction_count]
ReplyOf(id, isPublic) == [id |-> id, is_public |-> isPublic]

Tabs == {"overview", "inbox", "reviewed"}
Filters == {"all", "question", "feedback", "confession"}

\* m.reaction_count || 0
ReactionCount(m) == IF m.reaction_count = NoCount THEN 0 ELSE m.reaction_count

Ids(list) == {list[k].id : k \in 1..Len(list)}
RemoveAt(seq, i) == SubSeq(seq, 1, i - 1) \o SubSeq(seq, i + 1, Len(seq))
\* Array.prototype.slice(0, n)
Take(seq, n) == SubSeq(seq, 1, IF Len(seq) < n THEN Len(seq) ELSE n)

(***************************************************************************)
(* The server, as section 6 of the specification describes its endpoints.  *)
(***************************************************************************)
\* GET /api/feedback?creatorId&tag: the messages, of one tag when tag is given
FeedbackList(store, tag) ==
  LET Wanted(m) == tag = "all" \/ m.tag = tag
      chosen == SelectSeq(store, Wanted)
  IN [k \in 1..Len(chosen) |-> [chosen[k] EXCEPT !.reaction_count = NoCount]]

\* GET /api/reactions?messageId: how many reactions the message has
ReactionsOf(store, id) ==
  IF \E k \in 1..Len(store) : store[k].id = id
  THEN (CHOOSE m \in {store[k] : k \in 1..Len(store)} : m.id = id).reaction_count
  ELSE 0

\* PATCH /api/feedback/:id {reviewed}
PatchReviewed(store, id, reviewed) ==
  [k \in 1..Len(store) |->
     IF store[k].id = id THEN [store[k] EXCEPT !.reviewed = reviewed] ELSE store[k]]
\* DELETE /api/feedback/:id
DeleteMessage(store, id) ==
  LET Kept(m) == m.id # id IN SelectSeq(store, Kept)
\* POST /api/replies {messageId, replyText, isPublic}
PostReply(store, id, isPublic) ==
  [k \in 1..Len(store) |->
     IF store[k].id = id
     THEN [store[k] EXCEPT !.reply = <<ReplyOf(id, isPublic)>>]
     ELSE store[k]]
\* PATCH /api/replies/:id {isPublic}
PatchReply(store, replyId, isPublic) ==
  [k \in 1..Len(store) |->
     [store[k] EXCEPT !.reply =
        [r \in 1..Len(@) |-> IF @[r].id = replyId THEN ReplyOf(replyId, isPublic) ELSE @[r]]]]

\* what a request's effect on the store is
Effect(store, call) ==
  CASE call.op = "handleMarkReviewed" -> PatchReviewed(store, call.id, call.flag)
    [] call.op = "handleDelete" -> DeleteMessage(store, call.id)
    [] call.op = "handleReply" -> PostReply(store, call.id, call.flag)
    [] call.op = "handleToggleReplyVisibility" -> PatchReply(store, call.id, call.flag)

\* how a fetch() ends: a 2xx response, another response, or a rejection
FetchOutcomes == {"ok", "notOk", "throws"}

(***************************************************************************)
(* fetchMessages                                                           *)
(***************************************************************************)
\* the comparator of sortedMessages: negative when a goes before b
CompareHot_NoTieBreak(a, b) == ReactionCount(b) - ReactionCount(a)
CompareHot(a, b) ==
  LET reactionDiff == ReactionCount(b) - ReactionCount(a) IN
  IF reactionDiff # 0 THEN reactionDiff ELSE b.created_at - a.created_at

\* Array.prototype.sort with that comparator (a stable sort)
RECURSIVE InsertSorted(_, _)
InsertSorted(sorted, m) ==
  IF sorted = <<>> THEN <<m>>
  ELSE IF CompareHot(sorted[Len(sorted)], m) <= 0 THEN Append(sorted, m)
  ELSE Append(InsertSorted(SubSeq(sorted, 1, Len(sorted) - 1), m), sorted[Len(sorted)])

RECURSIVE SortMessages(_)
SortMessages(list) ==
  IF list = <<>> THEN <<>>
  ELSE InsertSorted(SortMessages(SubSeq(list, 1, Len(list) - 1)), list[Len(list)])

\* messagesWithReactions: each message with its reaction count, 0 for a
\* reactions response that is not ok
WithReactions(data, store, failed) ==
  [k \in 1..Len(data) |->
     [data[k] EXCEPT !.reaction_count =
        IF data[k].id \in failed THEN 0 ELSE ReactionsOf(store, data[k].id)]]

\* a fetchMessages run: the await it is at, the tag its closure captured, and
\* the unfiltered messages awaiting their reaction counts
Job(stage, tag, data) == [stage |-> stage, tag |-> tag, data |-> data]

Step(op, outcome, logged) == [op |-> op, outcome |-> outcome, logged |-> logged]
NoStep == Step("", "", "")

InFlight == Len(calls) + Len(fetches) + Len(supportCalls)

\* fetchMessages up to its first await: setIsLoading(true) and the filtered GET
FetchMessagesBegins(others, tag) ==
  /\ isLoading' = TRUE
  /\ fetches' = Append(others, Job("filtered", tag, <<>>))

FetchMessagesEnds_NoFinally(i, outcome, logged) ==
  /\ isLoading' = IF outcome = "ok" THEN FALSE ELSE isLoading
  /\ fetches' = RemoveAt(fetches, i)
  /\ lastStep' = Step("fetchMessages", outcome, logged)
\* the finally block, with or without the catch block's console.error
FetchMessagesEnds(i, outcome, logged) ==
  /\ isLoading' = FALSE
  /\ fetches' = RemoveAt(fetches, i)
  /\ lastStep' = Step("fetchMessages", outcome, logged)

\* await fetch(`/api/feedback?${params}`) settles
FetchFilteredDone ==
  /\ alertText = ""
  /\ \E i \in 1..Len(fetches), outcome \in FetchOutcomes :
       /\ fetches[i].stage = "filtered"
       /\ IF outcome = "ok"
          THEN /\ messages' = FeedbackList(db, fetches[i].tag)
               /\ fetches' = [fetches EXCEPT ![i].stage = "all"]
               /\ lastStep' = Step("fetchMessages", "ok", "")
               /\ UNCHANGED <<allMessages, isLoading>>
          ELSE /\ FetchMessagesEnds(i, outcome, "Error fetching messages:")
               /\ UNCHANGED <<messages, allMessages>>
  /\ UNCHANGED <<routeVars, db, viewVars, supportVars, calls, alertText>>

\* await fetch(`/api/feedback?creatorId=${creatorId}`) settles
FetchAllDone ==
  /\ alertText = ""
  /\ \E i \in 1..Len(fetches), outcome \in FetchOutcomes :
       /\ fetches[i].stage = "all"
       /\ CASE outcome = "ok" ->
                 /\ fetches' = [fetches EXCEPT ![i].stage = "reactions",
                                               ![i].data = FeedbackList(db, "all")]
                 /\ lastStep' = Step("fetchMessages", "ok", "")
                 /\ UNCHANGED isLoading
            [] outcome = "notOk" -> FetchMessagesEnds(i, outcome, "")
            [] outcome = "throws" -> FetchMessagesEnds(i, outcome, "Error fetching messages:")
  /\ UNCHANGED <<routeVars, db, messages, allMessages, viewVars, supportVars, calls, alertText>>

\* the Promise.all over the reactions requests of run i settles: with the
\* requests of failed answered not ok, or with a rejection
ReactionsSettled(i, failures) ==
  /\ fetches[i].stage = "reactions"
  /\ \/ \E failed \in failures :
          /\ allMessages' = SortMessages(WithReactions(fetches[i].data, db, failed))
          /\ FetchMessagesEnds(i, "ok", "")
     \/ /\ fetches[i].data # <<>>
        /\ FetchMessagesEnds(i, "throws", "Error fetching messages:")
        /\ UNCHANGED allMessages

FetchReactionsDone ==
  /\ alertText = ""
  /\ \E i \in 1..Len(fetches) : ReactionsSettled(i, SUBSET Ids(fetches[i].data))
  /\ UNCHANGED <<routeVars, db, messages, viewVars, supportVars, calls, alertText>>

\* the same, where the reactions requests are answered alike
FetchReactionsAlike ==
  /\ alertText = ""
  /\ \E i \in 1..Len(fetches) : ReactionsSettled(i, {{}, Ids(fetches[i].data)})
  /\ UNCHANGED <<routeVars, db, messages, viewVars, supportVars, calls, alertText>>

(***************************************************************************)
(* Derived values of a render                                              *)
(***************************************************************************)
Listed(list) == {list[k] : k \in 1..Len(list)}

\* Array.prototype.slice(from, to), 0 <= from <= to
Slice(seq, from, to) ==
  SubSeq(seq, from + 1, IF Len(seq) < to THEN Len(seq) ELSE to)

\* inboxMessages: no reply yet
HasReply(m) == m.reply # <<>>
HasNoReply(m) == ~HasReply(m)
InboxMessages == SelectSeq(messages, HasNoReply)
\* reviewedMessages: replied to, or marked reviewed
IsReviewed(m) == HasReply(m) \/ m.reviewed
ReviewedMessages == SelectSeq(messages, IsReviewed)

\* the metric counts; now is the clock the render reads (new Date()), in ms
OneWeek == 7 * 24 * 60 * 60 * 1000
TotalMessages == Len(messages)
IsThisWeek(m, now) == m.created_at >= now - OneWeek
ThisWeekMessages(now) == Cardinality({k \in 1..Len(messages) : IsThisWeek(messages[k], now)})
IsPending(m) == ~m.reviewed /\ HasNoReply(m)
PendingMessages == SelectSeq(messages, IsPending)
RepliedMessages == Len(SelectSeq(messages, HasReply))

GetFilteredMessages_FromAll ==
  IF activeTab = "inbox" THEN InboxMessages
  ELSE IF activeTab = "reviewed" THEN ReviewedMessages
  ELSE allMessages
GetFilteredMessages ==
  IF activeTab = "inbox" THEN InboxMessages
  ELSE IF activeTab = "reviewed" THEN ReviewedMessages
  ELSE messages

\* Math.ceil(filteredMessages.length / MESSAGES_PER_PAGE)
TotalPages == (Len(GetFilteredMessages) + MESSAGES_PER_PAGE - 1) \div MESSAGES_PER_PAGE

\* filteredMessages.slice((p - 1) * MESSAGES_PER_PAGE, p * MESSAGES_PER_PAGE)
PageOf_FromZero(list, p) ==
  Slice(list, p * MESSAGES_PER_PAGE, (p + 1) * MESSAGES_PER_PAGE)
PageOf(list, p) ==
  Slice(list, (p - 1) * MESSAGES_PER_PAGE, p * MESSAGES_PER_PAGE)
PaginatedMessages == PageOf(GetFilteredMessages, currentPage)

\* the cards of the Messages List, which renders once loading is over
ListShown == IF isLoading THEN <<>> ELSE PaginatedMessages

(***************************************************************************)
(* The Hot Posts section                                                   *)
(***************************************************************************)
\* (m.reaction_count || 0) >= 5
IsHot_OffByOne(m) == ReactionCount(m) >= HOT_THRESHOLD - 1
IsHot(m) == ReactionCount(m) >= HOT_THRESHOLD

\* allMessages.filter(...).slice(0, 4), rendered on the Overview tab only
HotPosts == Take(SelectSeq(allMessages, IsHot), HOT_LIMIT)
HotPostsShown == IF activeTab = "overview" THEN HotPosts ELSE <<>>

(***************************************************************************)
(* The CRUD handlers                                                       *)
(***************************************************************************)
Handlers ==
  {"handleMarkReviewed", "handleDelete", "handleReply", "handleToggleReplyVisibility"}

\* a handler's request in flight: its target and flag, and the tag the
\* fetchMessages of its closure captured
Call(op, id, flag, tag) == [op |-> op, id |-> id, flag |-> flag, tag |-> tag]

\* the alert() of each handler's catch block
FailureAlert(op) ==
  CASE op = "handleMarkReviewed" -> "Failed to update message"
    [] op = "handleDelete" -> "Failed to delete message"
    [] op = "handleReply" -> "Failed to submit reply"
    [] op = "handleToggleReplyVisibility" -> "Failed to update reply visibility"
\* the console.error of each handler's catch block
FailureLog(op) ==
  CASE op = "handleMarkReviewed" -> "Error updating message:"
    [] op = "handleDelete" -> "Error deleting message:"
    [] op = "handleReply" -> "Error submitting reply:"
    [] op = "handleToggleReplyVisibility" -> "Error updating reply visibility:"

\* the message the open MessageModal holds, as last fetched
ModalMessages ==
  {m \in Listed(messages) \cup Listed(allMessages) : m.id = selectedMessage}
\* the messages a handler can be called for: the cards of the list and the
\* open modal's
Shown == Listed(ListShown) \cup ModalMessages

\* the handler sends its request
Send(call) ==
  /\ alertText = ""
  /\ InFlight < MaxInFlight
  /\ calls' = Append(calls, call)
  /\ lastStep' = Step(call.op, "sent", "")
  /\ UNCHANGED <<routeVars, db, listVars, viewVars, supportVars, fetches, alertText>>

\* handleMarkReviewed(message.id, !message.reviewed)
HandleMarkReviewed ==
  \E m \in Shown : Send(Call("handleMarkReviewed", m.id, ~m.reviewed, filter))

\* handleDelete(message.id), after confirm()
HandleDelete ==
  \E m \in Shown : Send(Call("handleDelete", m.id, FALSE, filter))

\* handleReply(messageId, replyText, isPublic), from the message modal
HandleReply ==
  \E m \in ModalMessages, isPublic \in BOOLEAN :
    Send(Call("handleReply", m.id, isPublic, filter))

\* handleToggleReplyVisibility(reply.id, !reply.is_public), reply = message.reply[0]
HandleToggleReplyVisibility ==
  \E m \in Shown :
    /\ m.reply # <<>>
    /\ Send(Call("handleToggleReplyVisibility", m.reply[1].id, ~m.reply[1].is_public, filter))

\* whether the store has what the request is about
Targeted(store, call) ==
  IF call.op = "handleToggleReplyVisibility"
  THEN \E k \in 1..Len(store) : \E r \in 1..Len(store[k].reply) : store[k].reply[r].id = call.id
  ELSE call.id \in Ids(store)

\* if (!response.ok) throw ...; await fetchMessages()
Refetches_Always(outcome) == TRUE
Refetches(outcome) == outcome = "ok"

\* catch: console.error(...); alert(...)
Alerts_Never(op, outcome) == ""
Alerts(op, outcome) == IF outcome = "ok" THEN "" ELSE FailureAlert(op)

\* a handler's request settles: on an ok response the handler refetches, on any
\* other response or a rejection it logs and alerts
CallDone ==
  /\ alertText = ""
  /\ \E i \in 1..Len(calls), outcome \in FetchOutcomes :
       LET call == calls[i] IN
       /\ outcome = "ok" => Targeted(db, call)
       /\ calls' = RemoveAt(calls, i)
       /\ db' = IF outcome = "ok" THEN Effect(db, call) ELSE db
       /\ IF Refetches(outcome)
          THEN FetchMessagesBegins(fetches, call.tag)
          ELSE UNCHANGED <<isLoading, fetches>>
       /\ alertText' = Alerts(call.op, outcome)
       /\ lastStep' = Step(call.op, outcome, IF outcome = "ok" THEN "" ELSE FailureLog(call.op))
  /\ UNCHANGED <<routeVars, messages, allMessages, viewVars, supportVars>>

\* the user closes the alert() dialog
DismissAlert ==
  /\ alertText # ""
  /\ alertText' = ""
  /\ lastStep' = NoStep
  /\ UNCHANGED <<routeVars, db, listVars, viewVars, supportVars, calls, fetches>>

(***************************************************************************)
(* Tabs, filters and the message modal                                     *)
(***************************************************************************)
\* a tab button: setActiveTab(tab); setCurrentPage(1)
SetActiveTab ==
  /\ alertText = ""
  /\ \E tab \in Tabs :
       /\ activeTab' = tab
       /\ currentPage' = 1
  /\ lastStep' = NoStep
  /\ UNCHANGED <<routeVars, db, listVars, filter, selectedMessage, supportVars,
                 calls, fetches, alertText>>

\* the pagination bar: rendered under a loaded list of more than one page
PaginationShown == ~isLoading /\ TotalPages > 1
Maximum(a, b) == IF a > b THEN a ELSE b
Minimum(a, b) == IF a < b THEN a ELSE b

\* ChevronLeft: setCurrentPage(p => Math.max(1, p - 1)), disabled on page 1
PreviousPage ==
  /\ alertText = ""
  /\ PaginationShown /\ currentPage # 1
  /\ currentPage' = Maximum(1, currentPage - 1)
  /\ lastStep' = NoStep
  /\ UNCHANGED <<routeVars, db, listVars, activeTab, filter, selectedMessage, supportVars,
                 calls, fetches, alertText>>

\* ChevronRight: setCurrentPage(p => Math.min(totalPages, p + 1)), disabled on
\* the last page
NextPage ==
  /\ alertText = ""
  /\ PaginationShown /\ currentPage # TotalPages
  /\ currentPage' = Minimum(TotalPages, currentPage + 1)
  /\ lastStep' = NoStep
  /\ UNCHANGED <<routeVars, db, listVars, activeTab, filter, selectedMessage, supportVars,
                 calls, fetches, alertText>>

\* the page buttons: the first, the last, the current and its neighbours
PageButtons ==
  {page \in 1..TotalPages :
     page = 1 \/ page = TotalPages \/ (page >= currentPage - 1 /\ page <= currentPage + 1)}

\* a page button: setCurrentPage(page)
GoToPage ==
  /\ alertText = ""
  /\ PaginationShown
  /\ \E page \in PageButtons \ {currentPage} : currentPage' = page
  /\ lastStep' = NoStep
  /\ UNCHANGED <<routeVars, db, listVars, activeTab, filter, selectedMessage, supportVars,
                 calls, fetches, alertText>>

\* a filter button (Inbox and Reviewed tabs): setFilter(f); a new value gives
\* fetchMessages a new identity, and the effect on it calls it
SetFilterWithin(filters, cap) ==
  /\ alertText = ""
  /\ activeTab \in {"inbox", "reviewed"}
  /\ InFlight < cap
  /\ \E f \in filters \ {filter} :
       /\ filter' = f
       /\ FetchMessagesBegins(fetches, f)
  /\ lastStep' = NoStep
  /\ UNCHANGED <<routeVars, db, messages, allMessages, activeTab, selectedMessage,
                 currentPage, supportVars, calls, alertText>>
SetFilter(filters) == SetFilterWithin(filters, MaxInFlight)

\* a Hot Post or a Reply button: setSelectedMessage(message)
SelectMessage ==
  /\ alertText = ""
  /\ selectedMessage = 0
  /\ \E m \in Listed(HotPostsShown) \cup Listed(ListShown) : selectedMessage' = m.id
  /\ lastStep' = NoStep
  /\ UNCHANGED <<routeVars, db, listVars, activeTab, filter, currentPage, supportVars,
                 calls, fetches, alertText>>

\* MessageModal's onClose: setSelectedMessage(null); fetchMessages()
CloseMessageModal ==
  /\ alertText = ""
  /\ selectedMessage # 0
  /\ InFlight < MaxInFlight
  /\ selectedMessage' = 0
  /\ FetchMessagesBegins(fetches, filter)
  /\ lastStep' = NoStep
  /\ UNCHANGED <<routeVars, db, messages, allMessages, activeTab, filter, currentPage,
                 supportVars, calls, alertText>>

(***************************************************************************)
(* The support form                                                        *)
(***************************************************************************)
SupportCategories == {Bug, Feedback, Idea, Other}
SupportThanks == "Thanks! Your note is on its way to the Pulse team."
SupportDetailsNeeded == "Please add some details so we can help effectively."

ResetSupportForm_KeepsBanners ==
  /\ supportCategory' = Bug
  /\ supportSubject' = <<>>
  /\ supportMessage' = <<>>
  /\ UNCHANGED <<supportSuccess, supportError>>
\* resetSupportForm
ResetSupportForm ==
  /\ supportCategory' = Bug
  /\ supportSubject' = <<>>
  /\ supportMessage' = <<>>
  /\ supportSuccess' = ""
  /\ supportError' = ""

\* handleOpenSupportModal
HandleOpenSupportModal ==
  /\ alertText = ""
  /\ ~isSupportModalOpen
  /\ ResetSupportForm
  /\ isSupportModalOpen' = TRUE
  /\ lastStep' = NoStep
  /\ UNCHANGED <<routeVars, db, listVars, viewVars, supportSubmitting, supportCalls,
                 calls, fetches, alertText>>

\* handleCloseSupportModal: the X button, or Cancel unless a request is in flight
HandleCloseSupportModal ==
  /\ alertText = ""
  /\ isSupportModalOpen
  /\ isSupportModalOpen' = FALSE
  /\ lastStep' = NoStep
  /\ UNCHANGED <<routeVars, db, listVars, viewVars, supportCategory, supportSubject,
                 supportMessage, supportSubmitting, supportSuccess, supportError,
                 supportCalls, calls, fetches, alertText>>

\* a category button: setSupportCategory(option.value)
SetSupportCategory(categories) ==
  /\ alertText = ""
  /\ isSupportModalOpen
  /\ \E c \in categories \ {supportCategory} : supportCategory' = c
  /\ lastStep' = NoStep
  /\ UNCHANGED <<routeVars, db, listVars, viewVars, isSupportModalOpen, supportSubject,
                 supportMessage, supportSubmitting, supportSuccess, supportError,
                 supportCalls, calls, fetches, alertText>>

\* the Subject input (disabled while submitting): setSupportSubject(value)
TypeSupportSubject(texts) ==
  /\ alertText = ""
  /\ isSupportModalOpen /\ ~supportSubmitting
  /\ \E t \in texts \ {supportSubject} : supportSubject' = t
  /\ lastStep' = NoStep
  /\ UNCHANGED <<routeVars, db, listVars, viewVars, isSupportModalOpen, supportCategory,
                 supportMessage, supportSubmitting, supportSuccess, supportError,
                 supportCalls, calls, fetches, alertText>>

\* the Details textarea (disabled while submitting): setSupportMessage(value)
TypeSupportMessage(texts) ==
  /\ alertText = ""
  /\ isSupportModalOpen /\ ~supportSubmitting
  /\ \E t \in texts \ {supportMessage} : supportMessage' = t
  /\ lastStep' = NoStep
  /\ UNCHANGED <<routeVars, db, listVars, viewVars, isSupportModalOpen, supportCategory,
                 supportSubject, supportSubmitting, supportSuccess, supportError,
                 supportCalls, calls, fetches, alertText>>

\* the body of the POST: subject is undefined when it trims to nothing
SupportPayload ==
  [category |-> JStr(supportCategory),
   subject |-> IF Trim(supportSubject) = <<>> THEN JUndefined ELSE JStr(Trim(supportSubject)),
   message |-> JStr(Trim(supportMessage))]

\* !supportMessage.trim()
SupportMessageBlank_EmptyOnly == supportMessage = <<>>
SupportMessageBlank == Trim(supportMessage) = <<>>

\* handleSubmitSupportFeedback up to its first await (the Send button is
\* disabled while submitting)
HandleSubmitSupportFeedback ==
  /\ alertText = ""
  /\ isSupportModalOpen /\ ~supportSubmitting
  \* (the POST counts against the bound on requests in flight)
  /\ SupportMessageBlank \/ InFlight < MaxInFlight
  /\ IF SupportMessageBlank
     THEN /\ supportError' = SupportDetailsNeeded
          /\ lastStep' = Step("handleSubmitSupportFeedback", "invalid", "")
          /\ UNCHANGED <<supportSubmitting, supportCalls>>
     ELSE /\ supportSubmitting' = TRUE
          /\ supportError' = ""
          /\ supportCalls' = Append(supportCalls, SupportPayload)
          /\ lastStep' = Step("handleSubmitSupportFeedback", "sent", "")
  /\ UNCHANGED <<routeVars, db, listVars, viewVars, isSupportModalOpen, supportCategory,
                 supportSubject, supportMessage, supportSuccess, calls, fetches, alertText>>

\* how the POST ends, with payload.error (or the rejection's message), "" when
\* there is none
SupportResponse(outcome, error) == [outcome |-> outcome, error |-> error]
SupportResponses ==
  {SupportResponse("ok", ""),
   SupportResponse("notOk", "Unauthorized"), SupportResponse("notOk", ""),
   SupportResponse("throws", "Failed to fetch"), SupportResponse("throws", "")}

SupportErrorText_Generic(r) == "Something went wrong. Please try again."
\* throw new Error(payload?.error || 'Failed to submit feedback'), and
\* error?.message || 'Something went wrong. Please try again.'
SupportErrorText(r) ==
  IF r.outcome = "notOk"
  THEN (IF r.error # "" THEN r.error ELSE "Failed to submit feedback")
  ELSE (IF r.error # "" THEN r.error ELSE "Something went wrong. Please try again.")

\* finally: setSupportSubmitting(false)
SubmittingAfter_SuccessOnly(outcome) == outcome # "ok"
SubmittingAfter(outcome) == FALSE

\* the POST settles: the rest of handleSubmitSupportFeedback
SupportDone ==
  /\ alertText = ""
  /\ \E i \in 1..Len(supportCalls), r \in SupportResponses :
       /\ supportCalls' = RemoveAt(supportCalls, i)
       /\ IF r.outcome = "ok"
          THEN /\ supportSuccess' = SupportThanks
               /\ supportSubject' = <<>>
               /\ supportMessage' = <<>>
               /\ lastStep' = Step("handleSubmitSupportFeedback", "ok", "")
               /\ UNCHANGED supportError
          ELSE /\ supportError' = SupportErrorText(r)
               /\ lastStep' = Step("handleSubmitSupportFeedback", r.outcome,
                                   "Error submitting creator feedback:")
               /\ UNCHANGED <<supportSuccess, supportSubject, supportMessage>>
       /\ supportSubmitting' = SubmittingAfter(r.outcome)
  /\ UNCHANGED <<routeVars, db, listVars, viewVars, isSupportModalOpen, supportCategory,
                 calls, fetches, alertText>>

(***************************************************************************)
(* Initial states and specifications                                       *)
(***************************************************************************)
RouteInit ==
  /\ table = <<>>
  /\ tableBefore = <<>>
  /\ rpc = "idle"
  /\ request = NoRequest
  /\ response = NoResponse

\* the component after its first render and its effects: the useState values,
\* and the fetchMessages the mount effect called
DashInit(stores) ==
  /\ db \in stores
  /\ messages = <<>>
  /\ allMessages = <<>>
  /\ isLoading = TRUE
  /\ activeTab = "overview"
  /\ filter = "all"
  /\ selectedMessage = 0
  /\ currentPage = 1
  /\ isSupportModalOpen = FALSE
  /\ supportCategory = Bug
  /\ supportSubject = <<>>
  /\ supportMessage = <<>>
  /\ supportSubmitting = FALSE
  /\ supportSuccess = ""
  /\ supportError = ""
  /\ calls = <<>>
  /\ fetches = <<Job("filtered", "all", <<>>)>>
  /\ supportCalls = <<>>
  /\ alertText = ""
  /\ lastStep = NoStep

\* one message, just at the Hot Posts threshold
SeedStore == <<Msg(1, "question", FALSE, <<>>, 1, HOT_THRESHOLD)>>

InitRoute == RouteInit /\ DashInit({SeedStore})
NextRoute == HandlePost \/ NextRequest
SpecRoute == InitRoute /\ [][NextRoute]_vars

\* The dashboard over one message: fetches, the four handlers, the message
\* modal and the support form.
InitDash == RouteInit /\ DashInit({SeedStore})
NextDash ==
  \/ FetchFilteredDone \/ FetchAllDone \/ FetchReactionsDone
  \/ HandleMarkReviewed \/ HandleDelete \/ HandleReply \/ HandleToggleReplyVisibility
  \/ CallDone \/ DismissAlert
  \/ SelectMessage \/ HandleOpenSupportModal
  \/ TypeSupportMessage({<<"a">>})
  \/ HandleSubmitSupportFeedback \/ SupportDone
SpecDash == InitDash /\ [][NextDash]_vars

\* The Hot Posts section over every store of up to MaxMessages messages whose
\* reaction counts lie around the threshold: fetches, tabs, filters and the
\* message modal.
HotStores ==
  UNION {{[k \in 1..n |-> Msg(k, "question", FALSE, <<>>, k, count[k])] :
            count \in [1..n -> (HOT_THRESHOLD - 1)..MaxReactions]} : n \in 1..MaxMessages}
InitHot == RouteInit /\ DashInit(HotStores)
NextHot ==
  \/ FetchFilteredDone \/ FetchAllDone \/ FetchReactionsDone
  \/ SetActiveTab \/ SetFilter({"all", "question"})
  \/ SelectMessage \/ CloseMessageModal
SpecHot == InitHot /\ [][NextHot]_vars

\* The ranking of the Hot Posts over every store of up to MaxRanked messages,
\* oldest first, with reaction counts around the threshold: the mount fetch
\* and the tabs.
RankStores ==
  UNION {{[k \in 1..n |-> Msg(k, "question", FALSE, <<>>, k, count[k])] :
            count \in [1..n -> (HOT_THRESHOLD - 1)..MaxReactions]} : n \in 0..MaxRanked}
InitRank == RouteInit /\ DashInit(RankStores)
NextRank == FetchFilteredDone \/ FetchAllDone \/ FetchReactionsDone \/ SetActiveTab
SpecRank == InitRank /\ [][NextRank]_vars

\* The lists and the metrics over every store of up to MaxMessages messages
\* that differ in tag, handling and reactions: fetches, tabs and tag filters.
MessageKinds ==
  {[tag |-> "question", reviewed |-> FALSE, replied |-> FALSE, count |-> 0],
   [tag |-> "feedback", reviewed |-> TRUE, replied |-> FALSE, count |-> HOT_THRESHOLD],
   [tag |-> "question", reviewed |-> FALSE, replied |-> TRUE, count |-> MaxReactions]}
TabStores ==
  UNION {{[k \in 1..n |->
             Msg(k, kind[k].tag, kind[k].reviewed,
                 IF kind[k].replied THEN <<ReplyOf(k, TRUE)>> ELSE <<>>, k, kind[k].count)] :
            kind \in [1..n -> MessageKinds]} : n \in 0..MaxMessages}
InitTabs == RouteInit /\ DashInit(TabStores)
NextTabs ==
  \/ FetchFilteredDone \/ FetchAllDone \/ FetchReactionsDone
  \/ SetActiveTab \/ SetFilter(Filters)
SpecTabs == InitTabs /\ [][NextTabs]_vars

\* The pages of the list over every store of up to MaxPaged messages, every
\* second one marked reviewed: fetches, tabs and the pagination bar.
PagedStores ==
  {[k \in 1..n |-> Msg(k, "question", k % 2 = 0, <<>>, k, 0)] : n \in 0..MaxPaged}
InitPages == RouteInit /\ DashInit(PagedStores)
NextPages ==
  \/ FetchFilteredDone \/ FetchAllDone \/ FetchReactionsAlike
  \/ SetActiveTab
  \/ PreviousPage \/ NextPage \/ GoToPage
SpecPages == InitPages /\ [][NextPages]_vars

\* The support form, for a creator without messages: the mount fetch, the
\* modal, the form's fields and the submission.
SupportTexts == {<<>>, <<" ">>, <<"a">>, <<" ", "a">>}
InitSupport == RouteInit /\ DashInit({<<>>})
NextSupport ==
  \/ FetchFilteredDone \/ FetchAllDone \/ FetchReactionsDone
  \/ HandleOpenSupportModal \/ HandleCloseSupportModal
  \/ SetSupportCategory({Bug, Idea})
  \/ TypeSupportSubject({<<" ">>, <<"a">>}) \/ TypeSupportMessage(SupportTexts)
  \/ HandleSubmitSupportFeedback \/ SupportDone
SpecSupport == InitSupport /\ [][NextSupport]_vars
\* every fetch() of the form settles: with a response or with a rejection
SpecSupportFair == SpecSupport /\ WF_vars(SupportDone)

\* fetchMessages over a store of one message: the mount fetch, and the fetches
\* a new tag filter starts; every fetch() settles.
InitFetch == RouteInit /\ DashInit({SeedStore})
NextFetch ==
  \/ FetchFilteredDone \/ FetchAllDone \/ FetchReactionsAlike
  \/ SetActiveTab \/ SetFilter({"all", "question"})
SpecFetch ==
  /\ InitFetch /\ [][NextFetch]_vars
  /\ WF_vars(FetchFilteredDone) /\ WF_vars(FetchAllDone) /\ WF_vars(FetchReactionsAlike)

\* The page shown over every store of up to MaxPaged messages, every third one
\* tagged feedback and every second one marked reviewed: fetches, tabs, tag
\* filters and the pagination bar.
TaggedStores ==
  {[k \in 1..n |->
      Msg(k, IF k % 3 = 0 THEN "feedback" ELSE "question", k % 2 = 0, <<>>, k, 0)] :
     n \in 0..MaxPaged}
InitView == RouteInit /\ DashInit(TaggedStores)
NextView ==
  \/ FetchFilteredDone \/ FetchAllDone \/ FetchReactionsAlike
  \/ SetActiveTab \/ SetFilter({"all", "feedback"})
  \/ PreviousPage \/ NextPage \/ GoToPage
SpecView == InitView /\ [][NextView]_vars

\* fetchMessages runs that overlap, over two messages of different tags: the
\* mount fetch, and the fetches that tag filters chosen meanwhile start.
MixedStore ==
  <<Msg(1, "question", FALSE, <<>>, 1, 0), Msg(2, "feedback", FALSE, <<>>, 2, 0)>>
InitOverlap == RouteInit /\ DashInit({MixedStore})
NextOverlap ==
  \/ FetchFilteredDone \/ FetchAllDone \/ FetchReactionsAlike
  \/ SetActiveTab \/ SetFilterWithin({"all", "question"}, MaxOverlap)
SpecOverlap == InitOverlap /\ [][NextOverlap]_vars


(***************************************************************************)
(* The route's contract.  Requests are described here by what was sent,    *)
(* independently of the handler's own tests.                               *)
(***************************************************************************)
Done == rpc = "done"
\* requireCreator returned a session that carries a company id
Authenticated == request.auth.kind = "ok" /\ request.auth.companyId # ""
\* the body is JSON
Parsed == request.body.kind # "unparsable"
\* the category is one of the four the table's CHECK allows
CategoryAllowed == 
  /\ request.body.category.t = "string"
  /\ request.body.category.s \in {Bug, Feedback, Idea, Other}
\* the message is missing, empty or made of whitespace only
MessageBlank ==
  \/ request.body.message.t \in {"undefined", "null"}
  \/ /\ request.body.message.t = "string"
     /\ \A i \in 1..Len(request.body.message.s) : request.body.message.s[i] \in Whitespace
\* the message is a string with something other than whitespace in it
MessageGiven == request.body.message.t = "string" /\ ~MessageBlank
\* the subject is left out, null or a string
SubjectWellTyped == request.body.subject.t \in {"undefined", "null", "string"}
\* t is s without its leading and trailing whitespace
IsTrimOf(t, s) ==
  /\ t = <<>> \/ (t[1] \notin Whitespace /\ t[Len(t)] \notin Whitespace)
  /\ \E i \in 1..(Len(s) + 1) :
       /\ i + Len(t) - 1 <= Len(s)
       /\ t = SubSeq(s, i, i + Len(t) - 1)
       /\ \A k \in 1..Len(s) : (k < i \/ k > i + Len(t) - 1) => s[k] \in Whitespace

\* C1 as stated: every request (with a JSON body) whose category is missing or
\* is not one of bug, feedback, idea, other is answered 400.
C1_AsStated == (Done /\ Parsed /\ ~CategoryAllowed) => response.status = 400

\* C1, amended: a request that passed requireCreator with a company id and whose
\* body is JSON is answered 400 'Invalid category' when its category is missing
\* or is not one of bug, feedback, idea, other.
C1_InvalidCategory400 ==
  (Done /\ Authenticated /\ Parsed /\ ~CategoryAllowed)
    => (response.status = 400 /\ response.error = "Invalid category")

C1_Witness ==
  /\ Done /\ Authenticated
  /\ request.body.category = JStr(Spam)
  /\ response.status = 400

\* C2 as stated: every request (with a JSON body) whose message is missing,
\* empty or whitespace-only is answered 400.
C2_AsStated == (Done /\ Parsed /\ MessageBlank) => response.status = 400

\* C2, amended: a request that passed requireCreator with a company id and whose
\* body is JSON is answered 400 when its message is missing, empty or
\* whitespace-only.
C2_BlankMessage400 ==
  (Done /\ Authenticated /\ Parsed /\ MessageBlank) => response.status = 400

C2_Witness ==
  /\ Done /\ Authenticated /\ CategoryAllowed
  /\ request.body.message = JStr(<<" ">>)
  /\ response.status = 400 /\ response.error = "Message is required"

\* the submission is valid and every service answered: session with a company
\* id, allowed category, non-blank message, creator found, insert succeeded
ValidAndStored ==
  /\ Done /\ Authenticated /\ Parsed /\ CategoryAllowed /\ MessageGiven
  /\ request.lookup.kind = "found" /\ request.insert = "ok"

\* C3 as stated: a valid submission returns 201 and the returned record's
\* category, subject and message equal those submitted (a subject left out or
\* blank being returned as null).
C3_AsStated ==
  ValidAndStored =>
    /\ response.status = 201 /\ Len(response.data) = 1
    /\ response.data[1].category = request.body.category.s
    /\ response.data[1].message = request.body.message.s
    /\ response.data[1].subject =
         IF request.body.subject.t = "string"
            /\ \E i \in 1..Len(request.body.subject.s) :
                 request.body.subject.s[i] \notin Whitespace
         THEN request.body.subject ELSE JNull

\* C3, amended: a valid submission (subject left out, null or a string) reaches
\* the creator lookup and, the creator found, the insert; the insert succeeding,
\* it returns 201 with the stored record, whose category is the submitted one,
\* whose message is the submitted message trimmed, and whose subject is the
\* submitted subject trimmed, or null when that is missing or empty.
C3_Returns201Trimmed ==
  /\ (Done /\ Authenticated /\ Parsed /\ CategoryAllowed /\ MessageGiven)
       => request.lookup.kind # "notcalled"
  /\ (Done /\ Authenticated /\ Parsed /\ CategoryAllowed /\ MessageGiven
        /\ SubjectWellTyped /\ request.lookup.kind = "found")
       => request.insert # "notcalled"
  /\ ValidAndStored =>
       /\ response.status = 201 /\ Len(response.data) = 1
       /\ table = Append(tableBefore, response.data[1])
       /\ response.data[1].category = request.body.category.s
       /\ IsTrimOf(response.data[1].message, request.body.message.s)
       /\ response.data[1].message # <<>>
       /\ IF request.body.subject.t = "string"
            /\ \E i \in 1..Len(request.body.subject.s) :
                 request.body.subject.s[i] \notin Whitespace
          THEN /\ response.data[1].subject.t = "string"
               /\ IsTrimOf(response.data[1].subject.s, request.body.subject.s)
          ELSE response.data[1].subject = JNull

C3_Witness ==
  /\ ValidAndStored
  /\ request.body.message = JStr(<<" ", "a">>)
  /\ request.body.subject = JStr(<<"a", " ">>)
  /\ response.status = 201
  /\ response.data[1].message = <<"a">>

\* C4 as stated: every request for which requireCreator fails is answered 401,
\* whatever the error.
C4_AsStated == (Done /\ request.auth.kind = "throws") => response.status = 401

\* C4, amended: a request for which requireCreator throws is answered 401 when
\* the thrown error's message is a string containing 'Unauthorized', and 500
\* 'Internal server error' otherwise; nothing is read or stored for it.
C4_AuthFailure ==
  (Done /\ request.auth.kind = "throws") =>
    /\ IF request.auth.err.isString
          /\ \E i \in 1..Len(request.auth.err.msg) : request.auth.err.msg[i] = "Unauthorized"
       THEN response.status = 401 /\ response.error = "Unauthorized"
       ELSE response.status = 500 /\ response.error = "Internal server error"
    /\ request.lookup.kind = "notcalled" /\ request.insert = "notcalled"
    /\ table = tableBefore

C4_Witness ==
  /\ Done /\ request.auth = AuthThrows(Thrown(TRUE, <<"Forbidden">>))
  /\ response.status = 500

\* C5: an authenticated request with an allowed category and a non-blank message
\* reaches the creator lookup; when the company has no creator record it is
\* answered 404 and no row is inserted.
C5_NoCreator404 ==
  (Done /\ Authenticated /\ Parsed /\ CategoryAllowed /\ MessageGiven) =>
    /\ request.lookup.kind # "notcalled"
    /\ request.lookup.kind = "none" =>
         /\ response.status = 404
         /\ response.data = <<>>
         /\ request.insert = "notcalled"
         /\ table = tableBefore

C5_Witness ==
  /\ Done /\ Authenticated /\ CategoryAllowed /\ MessageGiven
  /\ request.lookup.kind = "none"
  /\ response.status = 404

\* C6: an otherwise valid authenticated request reaches the insert; when the
\* insert fails it is answered 500, never 201, with no record, and the table is
\* as it was.
C6_InsertFailure500 ==
  /\ (Done /\ Authenticated /\ Parsed /\ CategoryAllowed /\ MessageGiven
        /\ SubjectWellTyped /\ request.lookup.kind = "found")
       => request.insert # "notcalled"
  /\ (Done /\ request.insert = "error") =>
       /\ response.status = 500
       /\ response.data = <<>>
       /\ table = tableBefore

C6_Witness ==
  /\ Done /\ Authenticated /\ CategoryAllowed /\ MessageGiven
  /\ request.insert = "error"
  /\ response.status = 500 /\ response.error = "Failed to submit feedback"

\* the request fails only because of its own content: every service answered,
\* and the body is not JSON or the subject is not a string
FailsByContentOnly ==
  /\ Done /\ Authenticated
  /\ \/ ~Parsed
     \/ /\ CategoryAllowed /\ MessageGiven /\ ~SubjectWellTyped
        /\ request.lookup.kind = "found"

\* C7: 500 'Internal server error' is returned only when a service failed
\* unexpectedly; a request that fails only because of its own content (a body
\* that is not JSON, a subject that is not a string) is answered 400.
C7_ContentErrorsAre400 ==
  /\ FailsByContentOnly => response.status = 400
  /\ (Done /\ response.status = 500 /\ response.error = "Internal server error")
       => (request.auth.kind = "throws" \/ request.lookup.kind = "throws")

(***************************************************************************)
(* The dashboard's contract                                                *)
(***************************************************************************)
NotOk == {"notOk", "throws"}
\* a step in which a handler's request, a fetchMessages run or the support
\* POST ended in failure
CrudFailed == Len(calls') < Len(calls) /\ lastStep'.outcome \in NotOk
FetchFailed == Len(fetches') < Len(fetches) /\ lastStep'.outcome \in NotOk
SupportFailed == Len(supportCalls') < Len(supportCalls) /\ lastStep'.outcome \in NotOk
\* the step put nothing new on the network
NothingSent ==
  /\ Len(calls') <= Len(calls)
  /\ Len(fetches') <= Len(fetches)
  /\ Len(supportCalls') <= Len(supportCalls)
AlertTexts ==
  {"Failed to update message", "Failed to delete message", "Failed to submit reply",
   "Failed to update reply visibility"}

\* C8, as stated: every failed network call of the dashboard (message fetch,
\* the four handlers, support submission) raises a blocking alert and is not
\* retried.
C8_AsStated ==
  [][(CrudFailed \/ FetchFailed \/ SupportFailed) => (alertText' # "" /\ NothingSent)]_vars

\* C8, amended: no failed network call is retried; a failed mark-reviewed,
\* delete, reply or reply-visibility request is logged and raises its blocking
\* alert; a failed support submission is logged and shown in the form's error
\* banner, without an alert; a failed message fetch raises no alert and is at
\* most logged.
C8_FailuresSurfaced ==
  [][/\ (CrudFailed \/ FetchFailed \/ SupportFailed) => NothingSent
     /\ CrudFailed => (alertText' \in AlertTexts /\ lastStep'.logged # "")
     /\ SupportFailed => /\ alertText' = ""
                         /\ supportError' \notin {"", SupportDetailsNeeded}
                         /\ ~supportSubmitting'
                         /\ lastStep'.logged # ""
     /\ FetchFailed => (alertText' = "" /\ ~isLoading')]_vars

\* a handler's request has just failed and its alert is up, after a support
\* submission failed into the form's banner
C8_Witness ==
  /\ lastStep.op \in Handlers /\ lastStep.outcome \in NotOk
  /\ alertText \in AlertTexts
  /\ supportError \notin {"", SupportDetailsNeeded}

\* C9: when a mark-reviewed, delete, reply or reply-visibility request succeeds
\* the client starts exactly one fetchMessages, and when it fails the client
\* starts none and leaves messages and allMessages as they were.
C9_RefetchOnSuccessOnly ==
  [][Len(calls') < Len(calls) =>
       IF lastStep'.outcome = "ok"
       THEN /\ Len(fetches') = Len(fetches) + 1
            /\ SubSeq(fetches', 1, Len(fetches)) = fetches
            /\ fetches'[Len(fetches')].stage = "filtered"
       ELSE /\ fetches' = fetches
            /\ messages' = messages
            /\ allMessages' = allMessages]_vars

\* a delete has just succeeded: the message is gone from the store, the list
\* still shows it and the one refetch is in flight
C9_Witness ==
  /\ lastStep = Step("handleDelete", "ok", "")
  /\ db = <<>> /\ messages # <<>>
  /\ Len(fetches) = 1 /\ fetches[1].stage = "filtered"

\* C10, as stated: a message is in the Hot Posts section only if its reaction
\* count exceeds the threshold.
C10_AsStated ==
  \A m \in Listed(HotPostsShown) : m.reaction_count > HOT_THRESHOLD

\* C10, amended: a message is in the Hot Posts section only if its reaction
\* count is at least the threshold; a message with fewer reactions is never
\* shown there.
C10_HotAtLeastThreshold ==
  /\ \A m \in Listed(HotPostsShown) : m.reaction_count >= HOT_THRESHOLD
  /\ \A m \in Listed(allMessages) :
       m.reaction_count < HOT_THRESHOLD => m \notin Listed(HotPostsShown)

\* the Overview tab shows a message with exactly the threshold's reactions,
\* and leaves out one with one reaction less
C10_Witness ==
  /\ activeTab = "overview"
  /\ \E m \in Listed(HotPostsShown) : m.reaction_count = HOT_THRESHOLD
  /\ \E m \in Listed(allMessages) :
       m.reaction_count = HOT_THRESHOLD - 1 /\ m \notin Listed(HotPostsShown)

\* a ranks before b: more reactions, or as many and created later
RanksBefore(a, b) ==
  \/ a.reaction_count > b.reaction_count
  \/ a.reaction_count = b.reaction_count /\ a.created_at > b.created_at
HotSet == {m \in Listed(allMessages) : m.reaction_count >= HOT_THRESHOLD}
SmallerOf(a, b) == IF a < b THEN a ELSE b

\* C11: the Hot Posts shown are the first min(4, k) of the k hot messages in
\* ranking order: by reaction count descending, and between equal counts the
\* most recently created first.
C11_HotPostsRanked ==
  activeTab = "overview" =>
    /\ Len(HotPostsShown) = SmallerOf(HOT_LIMIT, Cardinality(HotSet))
    /\ Listed(HotPostsShown) \subseteq HotSet
    /\ \A i, j \in 1..Len(HotPostsShown) :
         i < j => RanksBefore(HotPostsShown[i], HotPostsShown[j])
    /\ \A shown \in Listed(HotPostsShown), hidden \in HotSet \ Listed(HotPostsShown) :
         RanksBefore(shown, hidden)

\* five hot messages were fetched, four are shown, and two of the shown have
\* the same count, the later created first
C11_Witness ==
  /\ activeTab = "overview"
  /\ Cardinality(HotSet) = HOT_LIMIT + 1
  /\ Len(HotPostsShown) = HOT_LIMIT
  /\ HotPostsShown[1].reaction_count = HotPostsShown[2].reaction_count
  /\ HotPostsShown[1].created_at > HotPostsShown[2].created_at

\* C12: in every state, no message that has a reply and no message whose
\* reviewed flag is set is in the Inbox list (which the Inbox badge counts).
C12_InboxUnhandledOnly ==
  \A m \in Listed(InboxMessages) : m.reply = <<>> /\ ~m.reviewed

\* the clocks a render may read: from before the oldest message is a week old
\* to after the newest is
Clock == {OneWeek + t : t \in 0..MaxMessages}
\* what a render derives for the lists, the metrics and the pagination
Derived ==
  <<GetFilteredMessages, InboxMessages, ReviewedMessages,
    TotalMessages, [now \in Clock |-> ThisWeekMessages(now)], Len(PendingMessages),
    RepliedMessages, TotalPages, PaginatedMessages>>

\* C13: the main list, the Inbox and Reviewed lists, the four metric counts,
\* totalPages and the page shown depend only on messages, activeTab and
\* currentPage (and the clock of the render): no step that leaves these three
\* alone changes any of them, whatever it does to allMessages and the reaction
\* counts in it.
C13_ListsIgnoreHotPosts ==
  [][(messages' = messages /\ activeTab' = activeTab /\ currentPage' = currentPage)
       => Derived' = Derived]_vars

\* a fetch has just replaced allMessages, with a hot message in it, under a
\* list that shows messages
C13_Witness ==
  /\ lastStep = Step("fetchMessages", "ok", "")
  /\ fetches = <<>>
  /\ HotSet # {}
  /\ GetFilteredMessages # <<>>
  /\ InboxMessages # <<>> /\ ReviewedMessages # <<>>
  /\ \E now \in Clock : ThisWeekMessages(now) \notin {0, TotalMessages}

\* C14: on the Overview tab, once a fetch has completed, the list titled 'All
\* Messages' and the Total metric cover every message of the creator, whatever
\* tag filter was last chosen on the Inbox or Reviewed tab.
C14_OverviewListsAll ==
  (activeTab = "overview" /\ fetches = <<>> /\ lastStep = Step("fetchMessages", "ok", ""))
    => (Ids(GetFilteredMessages) = Ids(db) /\ TotalMessages = Len(db))

\* the least number of pages of ten that hold n messages
PagesFor(n) == CHOOSE t \in 0..n : t * 10 >= n /\ (t = 0 \/ (t - 1) * 10 < n)
RECURSIVE JoinPages(_, _)
JoinPages(list, p) == IF p = 0 THEN <<>> ELSE JoinPages(list, p - 1) \o PageOf(list, p)

\* C15: for a filtered list of n messages, totalPages = ceil(n/10); page p of
\* 1..totalPages shows, in list order, the items at positions (p-1)*10+1 ..
\* min(p*10, n); every page has between 1 and 10 messages; and the pages
\* joined in order are the filtered list.
C15_PagesPartitionList ==
  LET list == GetFilteredMessages
      n == Len(list)
  IN /\ TotalPages = PagesFor(n)
     /\ \A p \in 1..TotalPages :
          LET last == IF p * 10 < n THEN p * 10 ELSE n
              page == PageOf(list, p)
          IN /\ Len(page) = last - (p - 1) * 10
             /\ Len(page) >= 1 /\ Len(page) <= 10
             /\ \A k \in 1..Len(page) : page[k] = list[(p - 1) * 10 + k]
     /\ JoinPages(list, TotalPages) = list
     /\ currentPage \in 1..TotalPages => PaginatedMessages = PageOf(list, currentPage)

\* the third and last page of 21 messages is on screen, with one message
C15_Witness ==
  /\ ~isLoading
  /\ Len(GetFilteredMessages) = 21
  /\ currentPage = 3 /\ TotalPages = 3
  /\ Len(ListShown) = 1 /\ ListShown[1] = GetFilteredMessages[21]

(***************************************************************************)
(* The support form's contract                                             *)
(***************************************************************************)
\* a step of the Send button, and a step in which the POST settles
SubmitStep ==
  lastStep'.op = "handleSubmitSupportFeedback" /\ lastStep'.outcome \in {"invalid", "sent"}
SettleStep == Len(supportCalls') < Len(supportCalls)
\* empty or whitespace-only
BlankText(text) == \A k \in 1..Len(text) : text[k] = " "
FieldsKept ==
  /\ supportCategory' = supportCategory
  /\ supportSubject' = supportSubject
  /\ supportMessage' = supportMessage

\* C16: submitting the support form while its message is empty or
\* whitespace-only sets the error banner, sends no request, and leaves
\* supportSubmitting false and the category, subject and message unchanged.
C16_BlankSubmitRejected ==
  [][(SubmitStep /\ BlankText(supportMessage)) =>
       /\ supportError' = "Please add some details so we can help effectively."
       /\ supportCalls' = supportCalls
       /\ ~supportSubmitting /\ ~supportSubmitting'
       /\ FieldsKept]_vars

\* a whitespace-only message has just been refused
C16_Witness ==
  /\ lastStep = Step("handleSubmitSupportFeedback", "invalid", "")
  /\ supportMessage = <<" ">>
  /\ supportSubject # <<>>
  /\ supportError # "" /\ supportCalls = <<>> /\ ~supportSubmitting

\* C17: when a support submission gets an ok response, the success banner is
\* set, subject and message are cleared and the category is kept; when it gets
\* a non-ok response or throws, the error banner is set to the server's error
\* text (or a default), subject, message and category are kept, and the success
\* banner is left as it was.
C17_SubmissionOutcome ==
  [][SettleStep =>
       CASE lastStep'.outcome = "ok" ->
              /\ supportSuccess' = "Thanks! Your note is on its way to the Pulse team."
              /\ supportSubject' = <<>> /\ supportMessage' = <<>>
              /\ supportCategory' = supportCategory
         [] lastStep'.outcome = "notOk" ->
              /\ supportError' \in {"Unauthorized", "Failed to submit feedback"}
              /\ FieldsKept /\ supportSuccess' = supportSuccess
         [] lastStep'.outcome = "throws" ->
              /\ supportError' \in {"Failed to fetch", "Something went wrong. Please try again."}
              /\ FieldsKept /\ supportSuccess' = supportSuccess
         [] OTHER -> FALSE]_vars

\* a submission of category 'idea' has just been answered not ok with the
\* server's text, and the form still holds what was typed
C17_Witness ==
  /\ lastStep.op = "handleSubmitSupportFeedback" /\ lastStep.outcome = "notOk"
  /\ supportError = "Unauthorized"
  /\ supportMessage = <<" ", "a">> /\ supportCategory = Idea
  /\ supportSuccess = ""

\* C18: supportSubmitting is true exactly while a support request is in
\* flight, and every submission eventually sets it back to false.
C18_SubmittingWhileInFlight ==
  /\ [](supportSubmitting <=> supportCalls # <<>>)
  /\ supportSubmitting ~> ~supportSubmitting

\* a submission has just thrown, and the Send button is enabled again
C18_Witness ==
  /\ lastStep.op = "handleSubmitSupportFeedback" /\ lastStep.outcome = "throws"
  /\ ~supportSubmitting /\ supportCalls = <<>>
  /\ isSupportModalOpen

\* C19: opening the support modal presents a fresh form (category 'bug', empty
\* subject and message, no success and no error banner) whatever happened
\* before; closing it changes only isSupportModalOpen.
C19_OpenResetsCloseKeeps ==
  [][/\ (~isSupportModalOpen /\ isSupportModalOpen') =>
          /\ supportCategory' = <<"b", "u", "g">>
          /\ supportSubject' = <<>> /\ supportMessage' = <<>>
          /\ supportSuccess' = "" /\ supportError' = ""
     /\ (isSupportModalOpen /\ ~isSupportModalOpen') =>
          /\ FieldsKept
          /\ supportSuccess' = supportSuccess /\ supportError' = supportError
          /\ supportSubmitting' = supportSubmitting /\ supportCalls' = supportCalls
          /\ UNCHANGED <<routeVars, db, listVars, viewVars, calls, fetches, alertText>>]_vars

\* the form has just been opened again after a submission that failed, and is
\* fresh
C19_Witness ==
  /\ isSupportModalOpen
  /\ supportCategory = Bug /\ supportSubject = <<>> /\ supportMessage = <<>>
  /\ supportSuccess = "" /\ supportError = ""
  /\ supportSubmitting /\ lastStep = NoStep

(***************************************************************************)
(* fetchMessages' contract                                                 *)
(***************************************************************************)
\* a step in which a fetchMessages run ends, and the run that ends
RoundEnds == Len(fetches') < Len(fetches)
Ended == fetches[CHOOSE i \in 1..Len(fetches) : fetches' = RemoveAt(fetches, i)]
ListsKept == messages' = messages /\ allMessages' = allMessages

\* C20, as stated: every fetchMessages call eventually sets isLoading to
\* false; when the filtered fetch fails or throws, messages and allMessages are
\* left unchanged; and after any completed call messages and allMessages come
\* from the same fetch round: every message of messages is in allMessages.
C20_AsStated ==
  /\ fetches # <<>> ~> ~isLoading
  /\ [][RoundEnds =>
          /\ ~isLoading'
          /\ Ended.stage = "filtered" => ListsKept
          /\ Ids(messages') \subseteq Ids(allMessages')]_vars

\* C20, amended: every fetchMessages call eventually sets isLoading to false;
\* when the filtered fetch fails or throws, messages and allMessages are left
\* unchanged; when the filtered fetch succeeds, messages is updated, and
\* allMessages is updated by the same call only if the unfiltered fetch is
\* answered ok and no reactions request rejects: otherwise the call ends with
\* allMessages as it was.
C20_FetchRounds ==
  /\ fetches # <<>> ~> ~isLoading
  /\ [][/\ RoundEnds =>
            /\ ~isLoading'
            /\ messages' = messages
            /\ IF Ended.stage = "reactions" /\ lastStep'.outcome = "ok"
               THEN Ids(allMessages') = Ids(db)
               ELSE allMessages' = allMessages
        /\ (~RoundEnds /\ Len(fetches') = Len(fetches) /\ fetches' # fetches) =>
            /\ allMessages' = allMessages
            /\ \E i \in 1..Len(fetches) :
                 /\ fetches'[i] # fetches[i]
                 /\ fetches[i].stage = "filtered" => Ids(messages') \subseteq Ids(db)
                 /\ fetches[i].stage # "filtered" => messages' = messages]_vars

\* the mount call has ended on an unfiltered fetch answered not ok: the list is
\* loaded, and allMessages was never set
C20_Witness ==
  /\ lastStep = Step("fetchMessages", "notOk", "")
  /\ ~isLoading /\ fetches = <<>>
  /\ messages # <<>> /\ allMessages = <<>>

(***************************************************************************)
(* The page shown                                                          *)
(***************************************************************************)
\* C21: in every state currentPage lies between 1 and max(1, totalPages), and
\* a loaded list that is not empty never shows an empty page.
C21_PageWithinRange ==
  /\ currentPage >= 1
  /\ currentPage <= Maximum(1, TotalPages)
  /\ (~isLoading /\ GetFilteredMessages # <<>>) => ListShown # <<>>

(***************************************************************************)
(* Overlapping fetchMessages runs                                          *)
(***************************************************************************)
\* no run is in flight
Quiet == fetches = <<>>
\* the step just taken was not a fetch() that failed
NoFailure == lastStep.outcome \notin NotOk

\* C22: isLoading is true as long as a fetchMessages run is in flight; and,
\* when no fetch() fails, once every run has completed messages holds the
\* response to the currently selected filter, whatever order the responses
\* arrived in.
C22_LastFilterWins ==
  /\ [](fetches # <<>> => isLoading)
  /\ []NoFailure => [](Quiet => messages = FeedbackList(db, filter))

(***************************************************************************)
(* The support form's banners and sessions                                 *)
(***************************************************************************)
\* C23: in every state of the open support form, the success banner and the
\* error banner are not both set.
C23_OneBannerAtMost ==
  isSupportModalOpen => ~(supportSuccess # "" /\ supportError # "")

\* a response arrives at a form opened after its request was sent: a request is
\* sent with a message that is not blank, which the disabled fields keep until
\* the response, so the form is empty only if it was reset meanwhile
LateResponse == SettleStep /\ isSupportModalOpen /\ supportMessage = <<>>

\* C24: the response to a submission sent before the modal was closed and
\* opened again leaves the subject, the message and both banners of the
\* reopened form as they are.
C24_LateResponseIgnored ==
  [][LateResponse =>
       /\ supportSubject' = supportSubject /\ supportMessage' = supportMessage
       /\ supportSuccess' = supportSuccess /\ supportError' = supportError]_vars

(***************************************************************************)
(* The creator_feedback table                                              *)
(***************************************************************************)
\* C25: a request inserts at most one row, and only when it is answered 201;
\* a request answered 400, 401, 404 or 500 leaves the table as it was; and
\* every stored row has a category of the allow-list and a message that is
\* not empty and has no leading or trailing whitespace.
C25_RowsOnlyOn201 ==
  /\ Done =>
       /\ table = tableBefore \/ \E row \in {table[Len(table)]} : table = Append(tableBefore, row)
       /\ table # tableBefore => response.status = 201
       /\ response.status \in {400, 401, 404, 500} => table = tableBefore
  /\ \A i \in 1..Len(table) :
       /\ table[i].category \in {<<"b", "u", "g">>, <<"f", "e", "e", "d", "b", "a", "c", "k">>,
                                <<"i", "d", "e", "a">>, <<"o", "t", "h", "e", "r">>}
       /\ table[i].message # <<>>
       /\ table[i].message[1] \notin Whitespace
       /\ table[i].message[Len(table[i].message)] \notin Whitespace

\* a message sent with whitespace around it has just been stored, trimmed, as
\* the table's one new row, and answered 201
C25_Witness ==
  /\ Done /\ response.status = 201
  /\ request.body.category = JStr(Other)
  /\ request.body.message \in {JStr(<<" ", "a">>), JStr(<<"a", " ">>)}
  /\ Len(table) = Len(tableBefore) + 1
  /\ table[Len(table)].message = <<"a">>

====
